---- MODULE Spec2Model ----
(***************************************************************************)
(* ExtensionFeaturesManagementService                                      *)
(* (vs/workbench/services/extensionManagement/common/                      *)
(*  extensionFeaturesManagemetService.ts)                                  *)
(*                                                                         *)
(* The service keeps, per (extension, feature) pair, a state object        *)
(* {disabled?, accessData: {totalCount, current?}} in a map of maps,       *)
(* persists {disabled?, accessCount} as JSON under one storage key, gates  *)
(* the first access behind a confirmation dialog, and reloads the whole    *)
(* map when the storage key is changed from outside.                       *)
(*                                                                         *)
(* JavaScript runs the service on one thread: every synchronous method is  *)
(* one atomic action.  getAccess is split at its only await (the dialog)   *)
(* into GetAccess (up to the await) and ConfirmResolve (the continuation). *)
(* The continuation keeps the reference `featureState` it took before the  *)
(* await; a reload replaces the map by fresh objects, so that reference    *)
(* may then point to an object that is no longer in the map.  Such objects *)
(* are kept in `detached`.                                                 *)
(***************************************************************************)
EXTENDS Naturals, Sequences, FiniteSets, TLC

VARIABLES
    extensionFeaturesState, \* this.extensionFeaturesState: extensionId -> featureId -> state object
    keyOrder,               \* the keys of this.extensionFeaturesState and of its maps, in insertion order
    storage,                \* the value stored under FEATURES_STATE_KEY
    pending,                \* getAccess calls suspended at `await dialogService.confirm`
    detached,               \* state objects referenced by suspended calls but replaced in the map
    now,                    \* the clock read by Date.now()
    asked,                  \* pairs the dialog was invoked for since the last external reload
    lastOp,                 \* the last call on the service: arguments, result, effects in order
    calls,                  \* number of calls made on the service so far
    extensions,             \* jsonValidation: the batch delivered to the extension point handler
    collectors,             \* jsonValidation: the messages on extensions[i].collector, in order
    handled                 \* jsonValidation: the handler has run on the batch

\* The variables of the service
serviceVars ==
    <<extensionFeaturesState, keyOrder, storage, pending, detached, now, asked, lastOp, calls>>

\* The variables of the jsonValidation extension point
pointVars == <<extensions, collectors, handled>>

vars == <<extensionFeaturesState, keyOrder, storage, pending, detached, now, asked, lastOp,
          calls, extensions, collectors, handled>>

----------------------------------------------------------------------------
(* Bounds of the model *)

\* Number of calls (methods, dialog answers, storage notifications) in a run.
MaxCalls == 3
\* Grants are possible while the object's totalCount is below this.
MaxCount == 2
\* Date.now() stops advancing here.
MaxTime == 2
\* Number of getAccess calls that may be suspended at the dialog together.
MaxPending == 2
\* Largest accessCount found in a value written to storage from outside.
MaxStoredCount == 1

----------------------------------------------------------------------------
(* The collaborators *)

\* The extension ids and the feature ids the calls are made with
ExtensionIds == {"e1", "e2"}
FeatureIds == {"codeActions", "noSuchFeature"}

\* The feature ids the registry knows: registerExtensionFeature({id: 'codeActions', ...}).
\* "noSuchFeature" stands for every id that was never registered.
RegisteredFeatures == {"codeActions"}

\* registry.getExtensionFeature(featureId) is defined
getExtensionFeature(featureId) == featureId \in RegisteredFeatures

\* The status argument of setStatus: undefined, or a {severity, message} value.
Statuses == {"undefined", "warning"}

EmptyMap == [k \in {} |-> k]

----------------------------------------------------------------------------
(* IExtensionFeatureState *)

\* accessData.current is absent
NoCurrent == [present |-> FALSE, count |-> 0, lastAccessed |-> 0, status |-> "undefined"]

\* { accessData: { totalCount: 0 } }: disabled is undefined
NewFeatureState ==
    [disabled |-> "undefined", accessData |-> [totalCount |-> 0, current |-> NoCurrent]]

\* the value `disabled` takes for a boolean
DisabledOf(b) == IF b THEN "true" ELSE "false"

HasExtensionFeatureState(m, extension, featureId) ==
    extension \in DOMAIN m /\ featureId \in DOMAIN m[extension]

\* this.extensionFeaturesState.get(extension.value)?.get(featureId), when defined
getExtensionFeatureState(m, extension, featureId) == m[extension][featureId]

\* getAndSetIfNotExistsExtensionFeatureState without the test of line 158:
\* the feature's object is always a new one
getAndSetIfNotExists_mutAlwaysNew(m, extension, featureId) ==
    LET m1 == IF extension \in DOMAIN m THEN m ELSE m @@ (extension :> EmptyMap)
    IN  [e \in DOMAIN m1 |->
            IF e = extension
            THEN [f \in DOMAIN m1[e] \cup {featureId} |->
                     IF f = featureId THEN NewFeatureState ELSE m1[e][f]]
            ELSE m1[e]]

\* The map after getAndSetIfNotExistsExtensionFeatureState(extension, featureId)
getAndSetIfNotExistsExtensionFeatureState(m, extension, featureId) ==
    LET m1 == IF extension \in DOMAIN m THEN m ELSE m @@ (extension :> EmptyMap)
    IN  IF featureId \in DOMAIN m1[extension]
        THEN m1
        ELSE [m1 EXCEPT ![extension] = @ @@ (featureId :> NewFeatureState)]

\* Map.keys() of this.extensionFeaturesState, in insertion order.  `keys` is a
\* sequence of [extension, features]: the extension ids in the order they were
\* set, each with the feature ids of its map in the order they were set.
extensionKeys(keys) == [i \in DOMAIN keys |-> keys[i].extension]

\* [...featuresStateMap?.keys() ?? []]: the feature ids of one extension's
\* map in insertion order, none when the extension has no map
featureKeys(keys, extension) ==
    IF \E i \in DOMAIN keys : keys[i].extension = extension
    THEN keys[CHOOSE i \in DOMAIN keys : keys[i].extension = extension].features
    ELSE <<>>

\* The key order after getAndSetIfNotExistsExtensionFeatureState(extension,
\* featureId): Map.set of a new key appends it, a key that exists keeps its place
keysAfterGetAndSet(keys, extension, featureId) ==
    LET k1 == IF \E i \in DOMAIN keys : keys[i].extension = extension
              THEN keys
              ELSE Append(keys, [extension |-> extension, features |-> <<>>])
    IN  [i \in DOMAIN k1 |->
            IF k1[i].extension = extension
               /\ ~ \E j \in DOMAIN k1[i].features : k1[i].features[j] = featureId
            THEN [k1[i] EXCEPT !.features = Append(@, featureId)]
            ELSE k1[i]]

\* distinct(array) of vs/base/common/arrays: the first occurrence of every
\* element, in the order of the array
RECURSIVE distinctFrom(_, _)
distinctFrom(array, i) ==
    IF i > Len(array) THEN <<>>
    ELSE (IF \E j \in 1..(i - 1) : array[j] = array[i] THEN <<>> ELSE <<array[i]>>)
         \o distinctFrom(array, i + 1)

distinct(array) == distinctFrom(array, 1)

isEnabled_mutNoRecordDisabled(m, extension, featureId) ==
    /\ getExtensionFeature(featureId)
    /\ HasExtensionFeatureState(m, extension, featureId)
    /\ getExtensionFeatureState(m, extension, featureId).disabled # "true"

isEnabled_mutIgnoreRegistry(m, extension, featureId) ==
    ~ ( /\ HasExtensionFeatureState(m, extension, featureId)
        /\ getExtensionFeatureState(m, extension, featureId).disabled = "true" )

\* isEnabled(extension, featureId)
isEnabled(m, extension, featureId) ==
    IF ~ getExtensionFeature(featureId)
    THEN FALSE
    ELSE ~ ( /\ HasExtensionFeatureState(m, extension, featureId)
             /\ getExtensionFeatureState(m, extension, featureId).disabled = "true" )

\* getAccessData(extension, featureId) is not undefined
HasAccessData(m, extension, featureId) ==
    /\ getExtensionFeature(featureId)
    /\ HasExtensionFeatureState(m, extension, featureId)

\* getAccessData(extension, featureId), when defined
getAccessData(m, extension, featureId) ==
    getExtensionFeatureState(m, extension, featureId).accessData

\* The loop of getEnablementData over the entries of the map, in the map's
\* insertion order, from the i-th on
RECURSIVE EnablementEntries(_, _, _, _)
EnablementEntries(m, keys, featureId, i) ==
    IF i > Len(keys) THEN <<>>
    ELSE LET extension == keys[i].extension
         IN  (IF /\ HasExtensionFeatureState(m, extension, featureId)
                 /\ m[extension][featureId].disabled # "undefined"
              THEN <<[extension |-> extension,
                      enabled   |-> ~ (m[extension][featureId].disabled = "true")]>>
              ELSE <<>>)
             \o EnablementEntries(m, keys, featureId, i + 1)

\* getEnablementData without the registry test of lines 76-77
getEnablementData_mutIgnoresRegistry(m, keys, featureId) ==
    EnablementEntries(m, keys, featureId, 1)

\* getEnablementData(featureId)
getEnablementData(m, keys, featureId) ==
    IF ~ getExtensionFeature(featureId) THEN <<>> ELSE EnablementEntries(m, keys, featureId, 1)

----------------------------------------------------------------------------
(* Persistence: saveState / loadState over the JSON text *)

\* One persisted entry: JSON.stringify drops a key whose value is undefined.
StringifyEntry(featureState) ==
    IF featureState.disabled = "undefined"
    THEN [accessCount |-> featureState.accessData.totalCount]
    ELSE [disabled |-> (featureState.disabled = "true"),
          accessCount |-> featureState.accessData.totalCount]

\* The value saveState() stores: the JSON text of `data`, whose keys are in
\* the order the two forEach loops over the maps assigned them
saveState(m, keys) ==
    [kind |-> "json",
     doc  |-> [e \in DOMAIN m |-> [f \in DOMAIN m[e] |-> StringifyEntry(m[e][f])]],
     keys |-> keys]

\* loadState recovering the entries of a text JSON.parse rejects
ParsedData_mutRecoversEntries(sto) == sto.doc

\* storageService.get(KEY, PROFILE, '{}') then JSON.parse in try/catch:
\* a missing key reads '{}', a parse failure leaves data = {}.
ParsedData(sto) == IF sto.kind = "json" THEN sto.doc ELSE EmptyMap

\* loadState forgetting the persisted `disabled`
LoadEntry_mutDropsDisabled(entry) ==
    [disabled   |-> "undefined",
     accessData |-> [totalCount |-> entry.accessCount, current |-> NoCurrent]]

\* One loaded state object
LoadEntry(entry) ==
    [disabled   |-> IF "disabled" \in DOMAIN entry THEN DisabledOf(entry.disabled)
                    ELSE "undefined",
     accessData |-> [totalCount |-> entry.accessCount, current |-> NoCurrent]]

\* loadState()
loadState(sto) ==
    LET data == ParsedData(sto)
    IN  [e \in DOMAIN data |-> [f \in DOMAIN data[e] |-> LoadEntry(data[e][f])]]

\* The key order of the map loadState() builds: the two for...in loops set
\* the keys in the order the parsed text has them
loadStateKeys(sto) == IF sto.kind = "json" THEN sto.keys ELSE <<>>

\* Values another window (or an earlier session) can have left under the key.
\* The service stores what saveState() writes: an entry without `disabled` is
\* that of an object no access was granted on.
StoredEntries ==
    {[accessCount |-> 0]}
      \cup {[disabled |-> b, accessCount |-> n] : b \in BOOLEAN, n \in 0..MaxStoredCount}

StoredDocs ==
    {[doc |-> EmptyMap, keys |-> <<>>]}
      \cup {[doc  |-> (e :> (f :> d)),
             keys |-> <<[extension |-> e, features |-> <<f>>]>>] :
                e \in ExtensionIds, f \in FeatureIds, d \in StoredEntries}

\* The entries that can be read in a stored text cut before its end, such as
\* '{"e1":{"codeActions":{"disabled":true,"accessCount":1}}': JSON.parse
\* rejects the text.
TruncatedDoc ==
    ("e1" :> ("codeActions" :> [disabled |-> TRUE, accessCount |-> MaxStoredCount]))

StorageValues ==
    {[kind |-> "none", doc |-> EmptyMap, keys |-> <<>>],
     [kind |-> "malformed", doc |-> TruncatedDoc,
      keys |-> <<[extension |-> "e1", features |-> <<"codeActions">>]>>]}
      \cup {[kind |-> "json", doc |-> d.doc, keys |-> d.keys] : d \in StoredDocs}

----------------------------------------------------------------------------
(* What a call does, in order: events fired and values stored *)

EnablementEvent(extension, featureId, enabled) ==
    [kind |-> "onDidChangeEnablement", extension |-> extension,
     featureId |-> featureId, enabled |-> enabled]

AccessDataEvent(extension, featureId, accessData) ==
    [kind |-> "onDidChangeAccessData", extension |-> extension,
     featureId |-> featureId, accessData |-> accessData]

StoreEffect(value) == [kind |-> "store", value |-> value]

\* A call in progress: the map, its key order, the stored value, the effects
\* so far.
World(m, keys, sto, effects) == [m |-> m, keys |-> keys, sto |-> sto, effects |-> effects]

\* saveState() in a call in progress
saveStateIn(w) ==
    LET value == saveState(w.m, w.keys)
    IN  World(w.m, w.keys, value, Append(w.effects, StoreEffect(value)))

\* setEnablement storing `enabled` where the code stores `!enabled`
setEnablement_mutNotNegated(w, extension, featureId, enabled) ==
    LET m1 == getAndSetIfNotExistsExtensionFeatureState(w.m, extension, featureId)
        k1 == keysAfterGetAndSet(w.keys, extension, featureId)
    IN  IF m1[extension][featureId].disabled # DisabledOf(enabled)
        THEN LET m2 == [m1 EXCEPT ![extension][featureId].disabled = DisabledOf(enabled)]
             IN  saveStateIn(World(m2, k1, w.sto,
                     Append(w.effects, EnablementEvent(extension, featureId, enabled))))
        ELSE World(m1, k1, w.sto, w.effects)

\* setEnablement without the test of line 67: fires and saves on every call
setEnablement_mutAlwaysFires(w, extension, featureId, enabled) ==
    LET m1 == getAndSetIfNotExistsExtensionFeatureState(w.m, extension, featureId)
        k1 == keysAfterGetAndSet(w.keys, extension, featureId)
        m2 == [m1 EXCEPT ![extension][featureId].disabled = DisabledOf(~enabled)]
    IN  saveStateIn(World(m2, k1, w.sto,
            Append(w.effects, EnablementEvent(extension, featureId, enabled))))

\* setEnablement(extension, featureId, enabled) for a registered feature
setEnablement(w, extension, featureId, enabled) ==
    LET m1 == getAndSetIfNotExistsExtensionFeatureState(w.m, extension, featureId)
        k1 == keysAfterGetAndSet(w.keys, extension, featureId)
    IN  IF m1[extension][featureId].disabled # DisabledOf(~enabled)
        THEN LET m2 == [m1 EXCEPT ![extension][featureId].disabled = DisabledOf(~enabled)]
             IN  saveStateIn(World(m2, k1, w.sto,
                     Append(w.effects, EnablementEvent(extension, featureId, enabled))))
        ELSE World(m1, k1, w.sto, w.effects)

\* the grant restarting the session count at every access
Granted_mutCountRestarts(accessData, t) ==
    [totalCount |-> accessData.totalCount + 1,
     current    |-> [present      |-> TRUE,
                     count        |-> 1,
                     lastAccessed |-> t,
                     status       |-> accessData.current.status]]

\* accessData after lines 114-119 of getAccess, with Date.now() = t
Granted(accessData, t) ==
    [totalCount |-> accessData.totalCount + 1,
     current    |-> [present      |-> TRUE,
                     count        |-> IF accessData.current.count # 0
                                      THEN accessData.current.count + 1 ELSE 1,
                     lastAccessed |-> t,
                     status       |-> accessData.current.status]]

\* the grant without the saveState() of line 120
grantLive_mutNoSave(w, extension, featureId, t) ==
    LET m1 == [w.m EXCEPT ![extension][featureId].accessData = Granted(@, t)]
    IN  World(m1, w.keys, w.sto,
              Append(w.effects,
                     AccessDataEvent(extension, featureId, m1[extension][featureId].accessData)))

\* getAccess from line 114 on, when featureState is the object in the map
grantLive(w, extension, featureId, t) ==
    LET m1 == [w.m EXCEPT ![extension][featureId].accessData = Granted(@, t)]
        w1 == saveStateIn(World(m1, w.keys, w.sto, w.effects))
    IN  World(w1.m, w1.keys, w1.sto,
              Append(w1.effects,
                     AccessDataEvent(extension, featureId, m1[extension][featureId].accessData)))

\* getAccess from line 114 on, when featureState is an object no longer in the map:
\* the counters of that object change, the map is saved as it is
grantDetached(w, extension, featureId, object) ==
    LET w1 == saveStateIn(w)
    IN  World(w1.m, w1.keys, w1.sto,
              Append(w1.effects, AccessDataEvent(extension, featureId, object.accessData)))

\* setStatus assigning a new accessData object instead of accessData.current
StatusSet_mutDropsTotalCount(accessData, status) ==
    [totalCount |-> 0,
     current    |-> [present      |-> TRUE,
                     count        |-> accessData.current.count,
                     lastAccessed |-> accessData.current.lastAccessed,
                     status       |-> status]]

\* setStatus starting a new current object: count and lastAccessed are lost
StatusSet_mutResetsSession(accessData, status) ==
    [accessData EXCEPT !.current = [present      |-> TRUE,
                                    count        |-> 0,
                                    lastAccessed |-> 0,
                                    status       |-> status]]

\* accessData.current after lines 139-143 of setStatus
StatusSet(accessData, status) ==
    [accessData EXCEPT !.current = [present      |-> TRUE,
                                    count        |-> accessData.current.count,
                                    lastAccessed |-> accessData.current.lastAccessed,
                                    status       |-> status]]

\* setStatus(extension, featureId, status) for a registered feature
setStatus(w, extension, featureId, status) ==
    LET m1 == getAndSetIfNotExistsExtensionFeatureState(w.m, extension, featureId)
        m2 == [m1 EXCEPT ![extension][featureId].accessData = StatusSet(@, status)]
    IN  World(m2, keysAfterGetAndSet(w.keys, extension, featureId), w.sto,
              Append(w.effects,
                     AccessDataEvent(extension, featureId, getAccessData(m2, extension, featureId))))

----------------------------------------------------------------------------
(* References held across the await *)

\* A suspended getAccess call.  ref = 0: its featureState is the object in the
\* map at (extension, featureId); ref = r > 0: it is detached[<<r, extension,
\* featureId>>], an object of the map that the r-th oldest reload still
\* referenced replaced.
PendingCall(extension, featureId, ref) ==
    [extension |-> extension, featureId |-> featureId, ref |-> ref]

Refs(p) == {p[i].ref : i \in DOMAIN p} \ {0}

RefRank(p, r) == IF r = 0 THEN 0 ELSE Cardinality({x \in Refs(p) : x <= r})

RemoveAt(p, i) == SubSeq(p, 1, i - 1) \o SubSeq(p, i + 1, Len(p))

\* Objects no suspended call references are garbage; the remaining reloads
\* are renumbered 1..k in their order.
Collect(p, d) ==
    LET keys == {k \in DOMAIN d :
                    \E i \in DOMAIN p : <<p[i].ref, p[i].extension, p[i].featureId>> = k}
        renamed(k) == <<RefRank(p, k[1]), k[2], k[3]>>
    IN  [pending  |-> [i \in DOMAIN p |-> [p[i] EXCEPT !.ref = RefRank(p, @)]],
         detached |-> [nk \in {renamed(k) : k \in keys} |->
                          d[CHOOSE k \in keys : renamed(k) = nk]]]

\* this.extensionFeaturesState = this.loadState(): the objects of the old map
\* that suspended calls hold stay alive outside the map.
Detach(p, d, old) ==
    LET r == Cardinality(Refs(p)) + 1
        live == {i \in DOMAIN p : p[i].ref = 0}
    IN  [pending  |-> [i \in DOMAIN p |-> IF i \in live THEN [p[i] EXCEPT !.ref = r] ELSE p[i]],
         detached |-> d @@ [k \in {<<r, p[i].extension, p[i].featureId>> : i \in live} |->
                               old[k[2]][k[3]]]]

----------------------------------------------------------------------------
(* onDidStorageChange: the events of the diff *)

\* the inner loop body without lines 179-183: access data is not compared
ReloadPairEvents_mutNoAccessEvent(old, new, extension, featureId) ==
    LET hasOld == HasExtensionFeatureState(old, extension, featureId)
        isEnabledNow == isEnabled(new, extension, featureId)
        wasEnabled == ~ (hasOld /\ old[extension][featureId].disabled = "true")
    IN  IF isEnabledNow # wasEnabled
        THEN <<EnablementEvent(extension, featureId, isEnabledNow)>> ELSE <<>>

\* the inner loop body firing the old enablement where line 177 fires the new
ReloadPairEvents_mutFiresWasEnabled(old, new, extension, featureId) ==
    LET hasOld == HasExtensionFeatureState(old, extension, featureId)
        isEnabledNow == isEnabled(new, extension, featureId)
        wasEnabled == ~ (hasOld /\ old[extension][featureId].disabled = "true")
        hasNewData == HasAccessData(new, extension, featureId)
        sameData == IF hasNewData /\ hasOld
                    THEN getAccessData(new, extension, featureId)
                            = old[extension][featureId].accessData
                    ELSE hasNewData = hasOld
    IN  (IF isEnabledNow # wasEnabled
         THEN <<EnablementEvent(extension, featureId, wasEnabled)>> ELSE <<>>)
        \o
        (IF ~ sameData
         THEN <<AccessDataEvent(extension, featureId,
                    IF hasNewData THEN getAccessData(new, extension, featureId)
                    ELSE [totalCount |-> 0, current |-> NoCurrent])>>
         ELSE <<>>)

\* The body of the inner loop for one (extensionId, featureId)
ReloadPairEvents(old, new, extension, featureId) ==
    LET hasOld == HasExtensionFeatureState(old, extension, featureId)
        isEnabledNow == isEnabled(new, extension, featureId)
        wasEnabled == ~ (hasOld /\ old[extension][featureId].disabled = "true")
        hasNewData == HasAccessData(new, extension, featureId)
        sameData == IF hasNewData /\ hasOld
                    THEN getAccessData(new, extension, featureId)
                            = old[extension][featureId].accessData
                    ELSE hasNewData = hasOld
    IN  (IF isEnabledNow # wasEnabled
         THEN <<EnablementEvent(extension, featureId, isEnabledNow)>> ELSE <<>>)
        \o
        (IF ~ sameData
         THEN <<AccessDataEvent(extension, featureId,
                    IF hasNewData THEN getAccessData(new, extension, featureId)
                    ELSE [totalCount |-> 0, current |-> NoCurrent])>>
         ELSE <<>>)

\* The inner loop of onDidStorageChange over `features`, from the j-th on
RECURSIVE ReloadFeatureEvents(_, _, _, _, _)
ReloadFeatureEvents(old, new, extension, features, j) ==
    IF j > Len(features) THEN <<>>
    ELSE ReloadPairEvents(old, new, extension, features[j])
         \o ReloadFeatureEvents(old, new, extension, features, j + 1)

\* The outer loop of onDidStorageChange over `extensionIds`, from the i-th on:
\* the features of an extension are the keys of its old map, then those of
\* its new map that the old one had not
RECURSIVE ReloadExtensionEvents(_, _, _, _, _, _)
ReloadExtensionEvents(old, oldKeys, new, newKeys, extensionIds, i) ==
    IF i > Len(extensionIds) THEN <<>>
    ELSE ReloadFeatureEvents(old, new, extensionIds[i],
                             distinct(featureKeys(oldKeys, extensionIds[i])
                                        \o featureKeys(newKeys, extensionIds[i])), 1)
         \o ReloadExtensionEvents(old, oldKeys, new, newKeys, extensionIds, i + 1)

\* The loops of onDidStorageChange: the extensions are the keys of the old
\* map, then those of the new map that the old one had not
ReloadEvents(old, oldKeys, new, newKeys) ==
    ReloadExtensionEvents(old, oldKeys, new, newKeys,
                          distinct(extensionKeys(oldKeys) \o extensionKeys(newKeys)), 1)

----------------------------------------------------------------------------
(* The actions *)

Op(op, extension, featureId, arg, result, effects) ==
    [op |-> op, extension |-> extension, featureId |-> featureId,
     arg |-> arg, result |-> result, effects |-> effects]

\* One more call on the service; the extension point is not involved
Called == calls < MaxCalls /\ calls' = calls + 1 /\ UNCHANGED pointVars

\* Date.now(): the clock does not go back
Times == {t \in now..(now + 1) : t <= MaxTime}

\* constructor: the map is loaded from what storage holds
Init ==
    /\ storage \in StorageValues
    /\ extensionFeaturesState = loadState(storage)
    /\ keyOrder = loadStateKeys(storage)
    /\ pending = <<>>
    /\ detached = EmptyMap
    /\ now = 1
    /\ asked = {}
    /\ lastOp = Op("constructor", "-", "-", "-", "void", <<>>)
    /\ calls = 0
    /\ extensions = <<>>
    /\ collectors = <<>>
    /\ handled = FALSE

\* setEnablement(extension, featureId, enabled)
SetEnablement(extension, featureId, enabled) ==
    /\ Called
    /\ IF ~ getExtensionFeature(featureId)
       THEN /\ lastOp' = Op("setEnablement", extension, featureId, DisabledOf(enabled), "throw", <<>>)
            /\ UNCHANGED <<extensionFeaturesState, keyOrder, storage, pending, detached, now, asked>>
       ELSE LET w == setEnablement(World(extensionFeaturesState, keyOrder, storage, <<>>),
                                   extension, featureId, enabled)
            IN  /\ extensionFeaturesState' = w.m
                /\ keyOrder' = w.keys
                /\ storage' = w.sto
                /\ lastOp' = Op("setEnablement", extension, featureId, DisabledOf(enabled),
                                "void", w.effects)
                /\ UNCHANGED <<pending, detached, now, asked>>

\* setStatus without the registry test of lines 134-137
SetStatus_mutNoRegistryTest(extension, featureId, status) ==
    /\ Called
    /\ LET w == setStatus(World(extensionFeaturesState, keyOrder, storage, <<>>),
                          extension, featureId, status)
       IN  /\ extensionFeaturesState' = w.m
           /\ keyOrder' = w.keys
           /\ storage' = w.sto
           /\ lastOp' = Op("setStatus", extension, featureId, status, "void", w.effects)
           /\ UNCHANGED <<pending, detached, now, asked>>

\* setStatus(extension, featureId, status)
SetStatus(extension, featureId, status) ==
    /\ Called
    /\ IF ~ getExtensionFeature(featureId)
       THEN /\ lastOp' = Op("setStatus", extension, featureId, status, "throw", <<>>)
            /\ UNCHANGED <<extensionFeaturesState, keyOrder, storage, pending, detached, now, asked>>
       ELSE LET w == setStatus(World(extensionFeaturesState, keyOrder, storage, <<>>),
                               extension, featureId, status)
            IN  /\ extensionFeaturesState' = w.m
                /\ keyOrder' = w.keys
                /\ storage' = w.sto
                /\ lastOp' = Op("setStatus", extension, featureId, status, "void", w.effects)
                /\ UNCHANGED <<pending, detached, now, asked>>

\* getAccess without the test of lines 94-96: a disabled pair is asked about
GetAccess_mutNoDisabledTest(extension, featureId) ==
    /\ Called
    /\ IF ~ getExtensionFeature(featureId)
       THEN /\ lastOp' = Op("getAccess", extension, featureId, "-", "false", <<>>)
            /\ UNCHANGED <<extensionFeaturesState, keyOrder, storage, pending, detached, now, asked>>
       ELSE LET m1 == getAndSetIfNotExistsExtensionFeatureState(extensionFeaturesState,
                                                                extension, featureId)
                k1 == keysAfterGetAndSet(keyOrder, extension, featureId)
                featureState == m1[extension][featureId]
            IN  CASE featureState.disabled \in {"true", "undefined"} ->
                       /\ Len(pending) < MaxPending
                       /\ extensionFeaturesState' = m1
                       /\ keyOrder' = k1
                       /\ pending' = Append(pending, PendingCall(extension, featureId, 0))
                       /\ asked' = asked \cup {<<extension, featureId>>}
                       /\ lastOp' = Op("getAccess", extension, featureId, "-", "confirm", <<>>)
                       /\ UNCHANGED <<storage, detached, now>>
                  [] featureState.disabled = "false" ->
                       /\ featureState.accessData.totalCount < MaxCount
                       /\ \E t \in Times :
                            LET w == grantLive(World(m1, k1, storage, <<>>), extension, featureId, t)
                            IN  /\ extensionFeaturesState' = w.m
                                /\ keyOrder' = w.keys
                                /\ storage' = w.sto
                                /\ now' = t
                                /\ lastOp' = Op("getAccess", extension, featureId, "-",
                                                "true", w.effects)
                       /\ UNCHANGED <<pending, detached, asked>>

\* getAccess(extension, featureId) up to its return or to the await of the dialog
GetAccess(extension, featureId) ==
    /\ Called
    /\ IF ~ getExtensionFeature(featureId)
       THEN /\ lastOp' = Op("getAccess", extension, featureId, "-", "false", <<>>)
            /\ UNCHANGED <<extensionFeaturesState, keyOrder, storage, pending, detached, now, asked>>
       ELSE LET m1 == getAndSetIfNotExistsExtensionFeatureState(extensionFeaturesState,
                                                                extension, featureId)
                k1 == keysAfterGetAndSet(keyOrder, extension, featureId)
                featureState == m1[extension][featureId]
            IN  CASE featureState.disabled = "true" ->
                       /\ extensionFeaturesState' = m1
                       /\ keyOrder' = k1
                       /\ lastOp' = Op("getAccess", extension, featureId, "-", "false", <<>>)
                       /\ UNCHANGED <<storage, pending, detached, now, asked>>
                  [] featureState.disabled = "undefined" ->
                       /\ Len(pending) < MaxPending
                       /\ extensionFeaturesState' = m1
                       /\ keyOrder' = k1
                       /\ pending' = Append(pending, PendingCall(extension, featureId, 0))
                       /\ asked' = asked \cup {<<extension, featureId>>}
                       /\ lastOp' = Op("getAccess", extension, featureId, "-", "confirm", <<>>)
                       /\ UNCHANGED <<storage, detached, now>>
                  [] featureState.disabled = "false" ->
                       /\ featureState.accessData.totalCount < MaxCount
                       /\ \E t \in Times :
                            LET w == grantLive(World(m1, k1, storage, <<>>), extension, featureId, t)
                            IN  /\ extensionFeaturesState' = w.m
                                /\ keyOrder' = w.keys
                                /\ storage' = w.sto
                                /\ now' = t
                                /\ lastOp' = Op("getAccess", extension, featureId, "-",
                                                "true", w.effects)
                       /\ UNCHANGED <<pending, detached, asked>>

\* The dialog of the i-th suspended call resolves with {confirmed}; getAccess
\* continues from line 108 to its return.
ConfirmResolve(i, confirmed) ==
    /\ Called
    /\ LET call == pending[i]
           extension == call.extension
           featureId == call.featureId
           rest == RemoveAt(pending, i)
           w1 == setEnablement(World(extensionFeaturesState, keyOrder, storage, <<>>),
                               extension, featureId, confirmed)
       IN  IF ~ confirmed
           THEN /\ extensionFeaturesState' = w1.m
                /\ keyOrder' = w1.keys
                /\ storage' = w1.sto
                /\ pending' = Collect(rest, detached).pending
                /\ detached' = Collect(rest, detached).detached
                /\ lastOp' = Op("getAccess.confirmed", extension, featureId, "false",
                                "false", w1.effects)
                /\ UNCHANGED <<now, asked>>
           ELSE IF call.ref = 0
           THEN /\ w1.m[extension][featureId].accessData.totalCount < MaxCount
                /\ \E t \in Times :
                     LET w2 == grantLive(w1, extension, featureId, t)
                     IN  /\ extensionFeaturesState' = w2.m
                         /\ keyOrder' = w2.keys
                         /\ storage' = w2.sto
                         /\ now' = t
                         /\ lastOp' = Op("getAccess.confirmed", extension, featureId, "true",
                                         "true", w2.effects)
                /\ pending' = Collect(rest, detached).pending
                /\ detached' = Collect(rest, detached).detached
                /\ UNCHANGED asked
           ELSE LET key == <<call.ref, extension, featureId>>
                IN  /\ detached[key].accessData.totalCount < MaxCount
                    /\ \E t \in Times :
                         LET object == [detached[key] EXCEPT !.accessData = Granted(@, t)]
                             w2 == grantDetached(w1, extension, featureId, object)
                             d2 == [detached EXCEPT ![key] = object]
                         IN  /\ extensionFeaturesState' = w2.m
                             /\ keyOrder' = w2.keys
                             /\ storage' = w2.sto
                             /\ now' = t
                             /\ pending' = Collect(rest, d2).pending
                             /\ detached' = Collect(rest, d2).detached
                             /\ lastOp' = Op("getAccess.confirmed", extension, featureId,
                                             "true", "true", w2.effects)
                    /\ UNCHANGED asked

\* onDidStorageChange(e).  e.external: another process has stored `value`
\* under the key.  Otherwise the listener returns at once, whatever storage
\* holds: nothing is read and `value` plays no part.
OnDidStorageChange(external, value) ==
    /\ Called
    /\ IF external
       THEN LET old == extensionFeaturesState
                new == loadState(value)
            IN  /\ storage' = value
                /\ extensionFeaturesState' = new
                /\ keyOrder' = loadStateKeys(value)
                /\ pending' = Detach(pending, detached, old).pending
                /\ detached' = Detach(pending, detached, old).detached
                /\ asked' = {}
                /\ lastOp' = Op("onDidStorageChange", "-", "-", "external", "void",
                                ReloadEvents(old, keyOrder, new, loadStateKeys(value)))
                /\ UNCHANGED now
       ELSE /\ lastOp' = Op("onDidStorageChange", "-", "-", "local", "void", <<>>)
            /\ UNCHANGED <<extensionFeaturesState, keyOrder, storage, pending, detached, now, asked>>

Next ==
    \/ \E e \in ExtensionIds, f \in FeatureIds, enabled \in BOOLEAN : SetEnablement(e, f, enabled)
    \/ \E e \in ExtensionIds, f \in FeatureIds, status \in Statuses : SetStatus(e, f, status)
    \/ \E e \in ExtensionIds, f \in FeatureIds : GetAccess(e, f)
    \/ \E i \in DOMAIN pending, confirmed \in BOOLEAN : ConfirmResolve(i, confirmed)
    \/ \E external \in BOOLEAN, value \in StorageValues : OnDidStorageChange(external, value)

Spec == Init /\ [][Next]_vars

----------------------------------------------------------------------------
(* JSONValidationExtensionPoint (vs/workbench/api/common/                    *)
(* jsonValidationExtensionPoint.ts): the handler of the 'jsonValidation'     *)
(* extension point.  It is given a batch of extensions, each with the value  *)
(* it contributes and its own message collector.                             *)

\* Largest number of extensions in a delivered batch
MaxBatch == 2
\* Largest number of entries in a contributed array
MaxEntries == 2

\* entry.fileMatch: a string, an array of strings, an array with a non-string
FileMatchValues == {"string", "strings", "mixed"}

\* entry.url: not a string; './...' that stays in the extension's folder; './...'
\* that leaves it; './...' that joinPath rejects; a URL with a scheme; any
\* other string
UrlValues == {"notString", "inside", "outside", "unjoinable", "absolute", "noScheme"}

Entries == [fileMatch : FileMatchValues, url : UrlValues]

SeqsUpTo(S, n) == UNION {[1..k -> S] : k \in 0..n}

\* extension.value: missing, a value that is not an array, or an array of entries
ExtensionValues ==
    {[kind |-> "undefined", entries |-> <<>>], [kind |-> "object", entries |-> <<>>]}
      \cup {[kind |-> "array", entries |-> es] : es \in SeqsUpTo(Entries, MaxEntries)}

Batches == SeqsUpTo(ExtensionValues, MaxBatch) \ {<<>>}

Message(severity, key) == [severity |-> severity, key |-> key]

\* The callback of extensionValue.forEach on one entry: the messages it
\* gives to the collector
validateEntry(entry) ==
    IF entry.fileMatch \notin {"string", "strings"}
    THEN <<Message("error", "invalid.fileMatch")>>
    ELSE IF entry.url = "notString"
    THEN <<Message("error", "invalid.url")>>
    ELSE IF entry.url \in {"inside", "outside", "unjoinable"}
    THEN CASE entry.url = "inside" -> <<>>
           [] entry.url = "outside" -> <<Message("warn", "invalid.path.1")>>
           [] entry.url = "unjoinable" -> <<Message("error", "invalid.url.fileschema")>>
    ELSE IF entry.url # "absolute"
    THEN <<Message("error", "invalid.url.schema")>>
    ELSE <<>>

\* extensionValue.forEach(...) from the j-th entry on
RECURSIVE forEachEntry(_, _)
forEachEntry(entries, j) ==
    IF j > Len(entries) THEN <<>>
    ELSE validateEntry(entries[j]) \o forEachEntry(entries, j + 1)

\* The handler from the i-th extension of the batch on; cols[k] holds the
\* messages on the k-th collector.  The `return` of line 59 leaves the
\* handler, not the iteration.
RECURSIVE handler(_, _, _)
handler(batch, i, cols) ==
    IF i > Len(batch) THEN cols
    ELSE IF batch[i].kind # "array"
    THEN [cols EXCEPT ![i] = Append(@, Message("error", "invalid.jsonValidation"))]
    ELSE handler(batch, i + 1,
                 [cols EXCEPT ![i] = @ \o forEachEntry(batch[i].entries, 1)])

\* A batch is about to be delivered; every collector is empty
InitJSONValidation ==
    /\ extensions \in Batches
    /\ collectors = [i \in DOMAIN extensions |-> <<>>]
    /\ handled = FALSE
    /\ storage = [kind |-> "none", doc |-> EmptyMap, keys |-> <<>>]
    /\ extensionFeaturesState = loadState(storage)
    /\ keyOrder = loadStateKeys(storage)
    /\ pending = <<>>
    /\ detached = EmptyMap
    /\ now = 1
    /\ asked = {}
    /\ lastOp = Op("constructor", "-", "-", "-", "void", <<>>)
    /\ calls = 0

\* The extension point calls the handler with the batch
Handle ==
    /\ ~ handled
    /\ collectors' = handler(extensions, 1, collectors)
    /\ handled' = TRUE
    /\ UNCHANGED extensions
    /\ UNCHANGED serviceVars

NextJSONValidation == Handle

SpecJSONValidation == InitJSONValidation /\ [][NextJSONValidation]_vars

----------------------------------------------------------------------------
(* Vocabulary of the properties *)

\* The step taken is a call `op`
Did(op) == calls' = calls + 1 /\ lastOp'.op = op

CountKind(effects, kind) == Cardinality({i \in DOMAIN effects : effects[i].kind = kind})

\* disabled of the pair's object in map m, "undefined" without an object
DisabledIn(m, extension, featureId) ==
    IF HasExtensionFeatureState(m, extension, featureId)
    THEN m[extension][featureId].disabled ELSE "undefined"

\* totalCount of the pair's object in map m, 0 without an object
TotalCountIn(m, extension, featureId) ==
    IF HasExtensionFeatureState(m, extension, featureId)
    THEN m[extension][featureId].accessData.totalCount ELSE 0

----------------------------------------------------------------------------
(* C1 *)

\* C1: for a registered feature, isEnabled is true for a pair without an
\* object, for an object whose disabled is undefined and for one whose
\* disabled is false, and false only when disabled is true.
C1_IsEnabledUnlessDisabled ==
    \A e \in ExtensionIds, f \in RegisteredFeatures :
        /\ ~ HasExtensionFeatureState(extensionFeaturesState, e, f)
              => isEnabled(extensionFeaturesState, e, f)
        /\ HasExtensionFeatureState(extensionFeaturesState, e, f)
              => ( isEnabled(extensionFeaturesState, e, f)
                     <=> extensionFeaturesState[e][f].disabled \in {"undefined", "false"} )

\* One pair has no object, another has an object that was never decided, and
\* both read enabled.
C1_Witness ==
    \E e1 \in ExtensionIds, e2 \in ExtensionIds, f \in RegisteredFeatures :
        /\ ~ HasExtensionFeatureState(extensionFeaturesState, e1, f)
        /\ isEnabled(extensionFeaturesState, e1, f)
        /\ HasExtensionFeatureState(extensionFeaturesState, e2, f)
        /\ extensionFeaturesState[e2][f].disabled = "undefined"
        /\ isEnabled(extensionFeaturesState, e2, f)
        /\ lastOp.op = "getAccess"

----------------------------------------------------------------------------
(* C2 *)

\* C2: for an unregistered feature id, whatever the map holds for the pair,
\* isEnabled is false and getAccessData is undefined, and a getAccess call
\* resolves to false (it does not throw) without invoking the dialog,
\* creating an object, storing or firing an event.
C2_UnregisteredReads ==
    /\ [](\A e \in ExtensionIds, f \in FeatureIds \ RegisteredFeatures :
            /\ ~ isEnabled(extensionFeaturesState, e, f)
            /\ ~ HasAccessData(extensionFeaturesState, e, f))
    /\ [][(Did("getAccess") /\ lastOp'.featureId \notin RegisteredFeatures)
            => /\ lastOp'.result = "false"
               /\ lastOp'.effects = <<>>
               /\ UNCHANGED <<extensionFeaturesState, keyOrder, storage, pending, detached, asked, now>>
         ]_vars

\* getAccess was called for an unregistered feature whose pair has an object,
\* loaded from storage, that is enabled and counts an access.
C2_Witness ==
    /\ lastOp.op = "getAccess"
    /\ lastOp.featureId \notin RegisteredFeatures
    /\ lastOp.result = "false"
    /\ HasExtensionFeatureState(extensionFeaturesState, lastOp.extension, lastOp.featureId)
    /\ extensionFeaturesState[lastOp.extension][lastOp.featureId].disabled = "false"
    /\ extensionFeaturesState[lastOp.extension][lastOp.featureId].accessData.totalCount > 0

----------------------------------------------------------------------------
(* C3 *)

\* The call just made and the one before it are setEnablement calls on the
\* same pair of a registered feature, with these `enabled` arguments.
TwoSetEnablements(first, second) ==
    /\ lastOp.op = "setEnablement"
    /\ lastOp.result = "void"
    /\ lastOp.arg = DisabledOf(first)
    /\ Did("setEnablement")
    /\ lastOp'.extension = lastOp.extension
    /\ lastOp'.featureId = lastOp.featureId
    /\ lastOp'.arg = DisabledOf(second)

EnablementEvents(op) == CountKind(op.effects, "onDidChangeEnablement")

\* C3 as claimed: disable-then-enable fires exactly two enablement events and
\* leaves the pair enabled; the same value twice fires exactly one.
C3_AsClaimed ==
    [][/\ TwoSetEnablements(FALSE, TRUE)
          => /\ isEnabled(extensionFeaturesState', lastOp'.extension, lastOp'.featureId)
             /\ EnablementEvents(lastOp) + EnablementEvents(lastOp') = 2
       /\ \A b \in BOOLEAN :
            TwoSetEnablements(b, b)
              => EnablementEvents(lastOp) + EnablementEvents(lastOp') = 1
      ]_vars

\* C3 (amended): a setEnablement call on a registered feature leaves disabled =
\* !enabled; when that changes the stored disabled value (undefined counts as
\* a value) it fires one enablement event and then stores the whole map, and
\* otherwise it fires nothing and stores nothing.  So of a disable followed by
\* an enable the second call fires exactly one event and leaves the pair
\* enabled, and the first fires one unless the pair was disabled already; of
\* two calls with the same value the second fires none.
C3_EventIffChanged ==
    [][/\ (Did("setEnablement") /\ lastOp'.featureId \in RegisteredFeatures)
          => LET e == lastOp'.extension
                 f == lastOp'.featureId
                 enabled == (lastOp'.arg = "true")
                 changed == ~ ( /\ HasExtensionFeatureState(extensionFeaturesState, e, f)
                                /\ extensionFeaturesState[e][f].disabled = DisabledOf(~enabled) )
             IN  /\ lastOp'.result = "void"
                 /\ extensionFeaturesState'[e][f].disabled = DisabledOf(~enabled)
                 /\ isEnabled(extensionFeaturesState', e, f) = enabled
                 /\ changed =>
                       /\ lastOp'.effects = <<EnablementEvent(e, f, enabled),
                                               StoreEffect(saveState(extensionFeaturesState', keyOrder'))>>
                       /\ storage' = saveState(extensionFeaturesState', keyOrder')
                 /\ ~ changed =>
                       /\ lastOp'.effects = <<>>
                       /\ UNCHANGED <<extensionFeaturesState, keyOrder, storage>>
       /\ TwoSetEnablements(FALSE, TRUE)
          => /\ isEnabled(extensionFeaturesState', lastOp'.extension, lastOp'.featureId)
             /\ EnablementEvents(lastOp') = 1
             /\ EnablementEvents(lastOp) \in {0, 1}
       /\ \A b \in BOOLEAN :
            TwoSetEnablements(b, b) => EnablementEvents(lastOp') = 0
      ]_vars

\* A disable followed by an enable of a pair that was decided before has just
\* fired its second event, and the map was stored.
C3_Witness ==
    /\ lastOp.op = "setEnablement"
    /\ lastOp.arg = "true"
    /\ EnablementEvents(lastOp) = 1
    /\ CountKind(lastOp.effects, "store") = 1
    /\ storage = saveState(extensionFeaturesState, keyOrder)
    /\ extensionFeaturesState[lastOp.extension][lastOp.featureId].disabled = "false"
    /\ extensionFeaturesState[lastOp.extension][lastOp.featureId].accessData.totalCount > 0
    /\ calls >= 2

----------------------------------------------------------------------------
(* C4 *)

\* C4: setEnablement and setStatus for an unregistered feature id throw, and
\* the call leaves the map, the stored value and both emitters untouched.
C4_UnknownFeatureThrows ==
    [][((Did("setEnablement") \/ Did("setStatus"))
           /\ lastOp'.featureId \notin RegisteredFeatures)
         => /\ lastOp'.result = "throw"
            /\ lastOp'.effects = <<>>
            /\ UNCHANGED <<extensionFeaturesState, keyOrder, storage, pending, detached, asked, now>>
      ]_vars

\* setStatus has thrown for a pair that has no object in the map.
C4_Witness ==
    /\ lastOp.op = "setStatus"
    /\ lastOp.featureId \notin RegisteredFeatures
    /\ lastOp.result = "throw"
    /\ ~ HasExtensionFeatureState(extensionFeaturesState, lastOp.extension, lastOp.featureId)

----------------------------------------------------------------------------
(* C5, C6: the outcome of the dialog *)

\* The step taken is the continuation of a getAccess call whose dialog
\* resolved with `confirmed`, for a pair that is still undecided in the map.
ConfirmedUndecided(confirmed) ==
    /\ Did("getAccess.confirmed")
    /\ lastOp'.arg = DisabledOf(confirmed)
    /\ DisabledIn(extensionFeaturesState, lastOp'.extension, lastOp'.featureId) = "undefined"

\* C5 as claimed: when the dialog of a getAccess call on a never-decided pair
\* returns confirmed: true, the call resolves to true and afterwards the pair
\* is enabled with totalCount = 1 and current.count = 1.
C5_AsClaimed ==
    [][ConfirmedUndecided(TRUE)
         => LET e == lastOp'.extension
                f == lastOp'.featureId
            IN  /\ lastOp'.result = "true"
                /\ isEnabled(extensionFeaturesState', e, f)
                /\ HasAccessData(extensionFeaturesState', e, f)
                /\ getAccessData(extensionFeaturesState', e, f).totalCount = 1
                /\ getAccessData(extensionFeaturesState', e, f).current.count = 1
      ]_vars

\* C6: when the dialog of a getAccess call returns confirmed: false, the call
\* resolves to false, the pair is disabled, no access is recorded (the
\* pair's access data is what it was, no access-data event is fired, the
\* clock is not read); for a pair still undecided the decision is fired and
\* stored and totalCount is 0.
C6_DisallowRecordsNoAccess ==
    [][(Did("getAccess.confirmed") /\ lastOp'.arg = "false")
         => LET e == lastOp'.extension
                f == lastOp'.featureId
                m == extensionFeaturesState
            IN  /\ lastOp'.result = "false"
                /\ ~ isEnabled(extensionFeaturesState', e, f)
                /\ extensionFeaturesState'[e][f].disabled = "true"
                /\ CountKind(lastOp'.effects, "onDidChangeAccessData") = 0
                /\ TotalCountIn(extensionFeaturesState', e, f) = TotalCountIn(m, e, f)
                /\ HasExtensionFeatureState(m, e, f)
                      => extensionFeaturesState'[e][f].accessData = m[e][f].accessData
                /\ now' = now
                /\ DisabledIn(m, e, f) = "undefined"
                      => /\ TotalCountIn(extensionFeaturesState', e, f) = 0
                         /\ lastOp'.effects =
                               <<EnablementEvent(e, f, FALSE),
                                 StoreEffect(saveState(extensionFeaturesState', keyOrder'))>>
                         /\ storage' = saveState(extensionFeaturesState', keyOrder')
      ]_vars

\* A dialog has just been refused: the pair is disabled with no access, and
\* the decision was fired and stored.
C6_Witness ==
    /\ lastOp.op = "getAccess.confirmed"
    /\ lastOp.arg = "false"
    /\ lastOp.result = "false"
    /\ EnablementEvents(lastOp) = 1
    /\ extensionFeaturesState[lastOp.extension][lastOp.featureId].disabled = "true"
    /\ extensionFeaturesState[lastOp.extension][lastOp.featureId].accessData.totalCount = 0
    /\ storage = saveState(extensionFeaturesState, keyOrder)

----------------------------------------------------------------------------
(* C7 *)

\* C7 as claimed: getAccess does not invoke the dialog for a pair it was
\* already invoked for since the last external reload.
C7_AsClaimed ==
    [][(Did("getAccess") /\ lastOp'.result = "confirm")
         => <<lastOp'.extension, lastOp'.featureId>> \notin asked
      ]_vars

----------------------------------------------------------------------------
(* C8, C9: what a step may do to a pair's totalCount and decision *)

\* The step taken is an external storage change (a reload of the map)
ExternalReload == Did("onDidStorageChange") /\ lastOp'.arg = "external"

\* The step taken is a getAccess call on the pair returning true
GrantedTo(e, f) ==
    /\ Did("getAccess") \/ Did("getAccess.confirmed")
    /\ lastOp'.result = "true"
    /\ lastOp'.extension = e
    /\ lastOp'.featureId = f

\* C8 as claimed: no step lowers a pair's totalCount, a getAccess call that
\* resolves to true raises it by one, and nothing else changes it.
C8_AsClaimed ==
    [][\A e \in ExtensionIds, f \in FeatureIds :
          TotalCountIn(extensionFeaturesState', e, f) =
             TotalCountIn(extensionFeaturesState, e, f) + (IF GrantedTo(e, f) THEN 1 ELSE 0)
      ]_vars

\* C8 (amended): setEnablement, setStatus and getAccess never lower a pair's
\* totalCount, and they change it only in a getAccess call on the pair that
\* resolves to true, which raises it by exactly one; an external reload sets
\* it to the accessCount storage holds for the pair (0 without an entry),
\* lower or higher than before.
C8_TotalCountLocalSteps ==
    [][\A e \in ExtensionIds, f \in FeatureIds :
          LET before == TotalCountIn(extensionFeaturesState, e, f)
              after == TotalCountIn(extensionFeaturesState', e, f)
              data == ParsedData(storage')
          IN  /\ ~ ExternalReload
                    => /\ after >= before
                       /\ after # before => (after = before + 1 /\ GrantedTo(e, f))
              /\ ExternalReload
                    => after = IF e \in DOMAIN data /\ f \in DOMAIN data[e]
                               THEN data[e][f].accessCount ELSE 0
      ]_vars

\* An access was just granted on a pair that had accesses stored before.
C8_Witness ==
    /\ lastOp.op \in {"getAccess", "getAccess.confirmed"}
    /\ lastOp.result = "true"
    /\ TotalCountIn(extensionFeaturesState, lastOp.extension, lastOp.featureId) = 2
    /\ extensionFeaturesState[lastOp.extension][lastOp.featureId].accessData.current.count = 1

\* C9 as claimed: no step removes a pair's object or makes a decided
\* `disabled` undefined again.
C9_AsClaimed ==
    [][\A e \in ExtensionIds, f \in FeatureIds :
          HasExtensionFeatureState(extensionFeaturesState, e, f)
            => /\ HasExtensionFeatureState(extensionFeaturesState', e, f)
               /\ DisabledIn(extensionFeaturesState, e, f) # "undefined"
                     => DisabledIn(extensionFeaturesState', e, f) # "undefined"
      ]_vars

\* C9 (amended): setEnablement, setStatus and getAccess never remove a pair's
\* object and never make a decided `disabled` undefined again, and `disabled`
\* changes only in a setEnablement call or a dialog outcome for the pair; an
\* external reload replaces every object by what storage holds, which may
\* drop the object or leave the pair undecided.
C9_DecisionLocalSteps ==
    [][~ ExternalReload
         => \A e \in ExtensionIds, f \in FeatureIds :
              /\ HasExtensionFeatureState(extensionFeaturesState, e, f)
                    => HasExtensionFeatureState(extensionFeaturesState', e, f)
              /\ DisabledIn(extensionFeaturesState, e, f) # "undefined"
                    => DisabledIn(extensionFeaturesState', e, f) # "undefined"
              /\ DisabledIn(extensionFeaturesState', e, f) # DisabledIn(extensionFeaturesState, e, f)
                    => /\ Did("setEnablement") \/ Did("getAccess.confirmed")
                       /\ lastOp'.extension = e
                       /\ lastOp'.featureId = f
      ]_vars

\* A pair decided in an earlier session (it has accesses) was just disabled
\* by setEnablement after another call on the service.
C9_Witness ==
    /\ lastOp.op = "setEnablement"
    /\ EnablementEvents(lastOp) = 1
    /\ DisabledIn(extensionFeaturesState, lastOp.extension, lastOp.featureId) = "true"
    /\ TotalCountIn(extensionFeaturesState, lastOp.extension, lastOp.featureId) > 0
    /\ calls >= 2

----------------------------------------------------------------------------
(* C10 *)

\* C10 as claimed: with no getAccess call suspended, what storage holds is
\* the projection of the map.
C10_AsClaimed ==
    pending = <<>> => ParsedData(storage) = saveState(extensionFeaturesState, keyOrder).doc

\* Storage and map agree on every pair, but for objects that were lazily
\* created and not stored yet.
StoredUpToLazyObjects ==
    \A e \in ExtensionIds, f \in FeatureIds :
        LET data == ParsedData(storage)
            stored == e \in DOMAIN data /\ f \in DOMAIN data[e]
            m == extensionFeaturesState
        IN  /\ stored => /\ HasExtensionFeatureState(m, e, f)
                          /\ data[e][f] = StringifyEntry(m[e][f])
            /\ (HasExtensionFeatureState(m, e, f) /\ ~ stored)
                  => /\ m[e][f].disabled = "undefined"
                     /\ m[e][f].accessData.totalCount = 0

\* C10 (amended): every setEnablement call that changes a decision and every
\* granted access stores the projection of the whole map before the call
\* returns, lazily created objects included.  setStatus never stores, nor
\* does getAccess up to its dialog or its refusal: an object they create
\* lazily (disabled undefined, totalCount 0) is missing from storage until
\* the next store.  Storage and map differ in nothing else.
C10_StoredUpToLazy ==
    /\ []StoredUpToLazyObjects
    /\ [][/\ CountKind(lastOp'.effects, "store") > 0
             => storage' = saveState(extensionFeaturesState', keyOrder')
          /\ (CountKind(lastOp'.effects, "store") = 0 /\ ~ ExternalReload)
             => storage' = storage
          /\ (lastOp'.result = "true" \/ EnablementEvents(lastOp') > 0) /\ ~ ExternalReload
             => CountKind(lastOp'.effects, "store") > 0
          /\ Did("setStatus") => CountKind(lastOp'.effects, "store") = 0
        ]_vars

\* An access was just granted and stored; the stored value includes the
\* object of another pair that setStatus had created without storing.
C10_Witness ==
    /\ lastOp.op = "getAccess"
    /\ lastOp.result = "true"
    /\ storage = saveState(extensionFeaturesState, keyOrder)
    /\ \E e \in ExtensionIds \ {lastOp.extension} :
          /\ HasExtensionFeatureState(extensionFeaturesState, e, lastOp.featureId)
          /\ extensionFeaturesState[e][lastOp.featureId].disabled = "undefined"
          /\ extensionFeaturesState[e][lastOp.featureId].accessData.current.present
          /\ storage.doc[e][lastOp.featureId] = [accessCount |-> 0]

----------------------------------------------------------------------------
(* C11 *)

\* C11: a service constructed on the persisted value (a restart) reports, for
\* every persisted pair of a registered feature, isEnabled = not (persisted
\* disabled is true) and totalCount = persisted accessCount, and every
\* loaded pair has no current session data; when the persisted value is the
\* one saved from the map, the restarted service has the decisions and the
\* total counts of the map.
C11_RoundTrip ==
    LET restarted == loadState(storage)
    IN  /\ storage.kind = "json" =>
              /\ DOMAIN restarted = DOMAIN storage.doc
              /\ \A e \in DOMAIN storage.doc :
                    /\ DOMAIN restarted[e] = DOMAIN storage.doc[e]
                    /\ \A f \in DOMAIN storage.doc[e] :
                          LET entry == storage.doc[e][f]
                          IN  /\ restarted[e][f].accessData.current = NoCurrent
                              /\ f \in RegisteredFeatures =>
                                    /\ isEnabled(restarted, e, f)
                                          = ~ ("disabled" \in DOMAIN entry /\ entry.disabled)
                                    /\ HasAccessData(restarted, e, f)
                                    /\ getAccessData(restarted, e, f).totalCount
                                          = entry.accessCount
        /\ storage = saveState(extensionFeaturesState, keyOrder) =>
              \A e \in ExtensionIds, f \in FeatureIds :
                 /\ HasExtensionFeatureState(restarted, e, f)
                       = HasExtensionFeatureState(extensionFeaturesState, e, f)
                 /\ DisabledIn(restarted, e, f) = DisabledIn(extensionFeaturesState, e, f)
                 /\ TotalCountIn(restarted, e, f) = TotalCountIn(extensionFeaturesState, e, f)
                 /\ isEnabled(restarted, e, f) = isEnabled(extensionFeaturesState, e, f)

\* The map was just saved with a pair that is disabled, has an access and
\* session data; the restart reads it disabled, with the count, without the
\* session data.
C11_Witness ==
    /\ CountKind(lastOp.effects, "store") > 0
    /\ storage = saveState(extensionFeaturesState, keyOrder)
    /\ \E e \in ExtensionIds, f \in RegisteredFeatures :
          /\ HasExtensionFeatureState(extensionFeaturesState, e, f)
          /\ extensionFeaturesState[e][f].disabled = "true"
          /\ extensionFeaturesState[e][f].accessData.totalCount > 0
          /\ extensionFeaturesState[e][f].accessData.current.present
          /\ ~ isEnabled(loadState(storage), e, f)
          /\ loadState(storage)[e][f].accessData.current = NoCurrent

----------------------------------------------------------------------------
(* C12 *)

\* accessData.current of the pair's object in map m, NoCurrent without an object
CurrentIn(m, extension, featureId) ==
    IF HasExtensionFeatureState(m, extension, featureId)
    THEN m[extension][featureId].accessData.current ELSE NoCurrent

\* The step taken is a getAccess call on a pair whose disabled is false
GetAccessOnEnabled ==
    /\ Did("getAccess")
    /\ lastOp'.featureId \in RegisteredFeatures
    /\ DisabledIn(extensionFeaturesState, lastOp'.extension, lastOp'.featureId) = "false"

\* C12: a getAccess call on an explicitly enabled pair resolves to true, adds
\* one to totalCount, makes current.count one more than it was (1 when
\* there was no session count), sets current.lastAccessed to the time of the
\* call and keeps current.status; no other call but a reload changes these
\* counts.  So of N such calls in a row on a pair without a session count the
\* N-th leaves current.count = N and totalCount N higher (N = 2: the call
\* made right after a first one that left current.count = 1).
C12_NAccessesCountN ==
    [][/\ GetAccessOnEnabled
          => LET e == lastOp'.extension
                 f == lastOp'.featureId
                 before == extensionFeaturesState[e][f].accessData
                 after == extensionFeaturesState'[e][f].accessData
             IN  /\ lastOp'.result = "true"
                 /\ after.totalCount = before.totalCount + 1
                 /\ after.current.present
                 /\ after.current.count
                       = IF before.current.count = 0 THEN 1 ELSE before.current.count + 1
                 /\ after.current.lastAccessed = now'
                 /\ now' >= now
                 /\ after.current.status = before.current.status
       /\ ( /\ GetAccessOnEnabled
            /\ lastOp.op = "getAccess"
            /\ lastOp.result = "true"
            /\ lastOp.extension = lastOp'.extension
            /\ lastOp.featureId = lastOp'.featureId )
          => LET e == lastOp'.extension
                 f == lastOp'.featureId
                 first == lastOp.effects[Len(lastOp.effects)].accessData
                 after == extensionFeaturesState'[e][f].accessData
             IN  /\ after.totalCount = (first.totalCount - 1) + 2
                 /\ after.current.count = first.current.count + 1
                 /\ first.current.count = 1 => after.current.count = 2
                 /\ after.current.lastAccessed >= first.current.lastAccessed
       /\ \A e \in ExtensionIds, f \in FeatureIds :
             (~ ExternalReload /\ ~ GrantedTo(e, f))
                => /\ TotalCountIn(extensionFeaturesState', e, f)
                         = TotalCountIn(extensionFeaturesState, e, f)
                   /\ CurrentIn(extensionFeaturesState', e, f).count
                         = CurrentIn(extensionFeaturesState, e, f).count
                   /\ CurrentIn(extensionFeaturesState', e, f).lastAccessed
                         = CurrentIn(extensionFeaturesState, e, f).lastAccessed
      ]_vars

\* The second of two accesses in a row on an enabled pair whose status had
\* been set: two accesses counted, the last at the current time, the status
\* kept.
C12_Witness ==
    /\ lastOp.op = "getAccess"
    /\ lastOp.result = "true"
    /\ LET accessData == extensionFeaturesState[lastOp.extension][lastOp.featureId].accessData
       IN  /\ accessData.current.count = 2
           /\ accessData.totalCount = 2
           /\ accessData.current.lastAccessed = now
           /\ accessData.current.status = "warning"

----------------------------------------------------------------------------
(* C13 *)

\* C13: a setStatus call on a registered feature sets current.status of the
\* pair to its argument and changes nothing else: current.count and
\* current.lastAccessed keep their values (0 when there was no current),
\* disabled and totalCount are as they were, every other pair's object, the
\* stored value, the suspended calls and the clock are untouched, and the
\* call fires exactly one access-data event, carrying the pair's access
\* data, and no other event.
C13_SetStatusOnlyStatus ==
    [][(Did("setStatus") /\ lastOp'.featureId \in RegisteredFeatures)
         => LET e == lastOp'.extension
                f == lastOp'.featureId
                m == extensionFeaturesState
                after == extensionFeaturesState'[e][f].accessData
            IN  /\ lastOp'.result = "void"
                /\ after.current.present
                /\ after.current.status = lastOp'.arg
                /\ after.current.count = CurrentIn(m, e, f).count
                /\ after.current.lastAccessed = CurrentIn(m, e, f).lastAccessed
                /\ after.totalCount = TotalCountIn(m, e, f)
                /\ DisabledIn(extensionFeaturesState', e, f) = DisabledIn(m, e, f)
                /\ isEnabled(extensionFeaturesState', e, f) = isEnabled(m, e, f)
                /\ \A e2 \in ExtensionIds, f2 \in FeatureIds :
                      <<e2, f2>> # <<e, f>>
                        => /\ HasExtensionFeatureState(extensionFeaturesState', e2, f2)
                                 = HasExtensionFeatureState(m, e2, f2)
                           /\ HasExtensionFeatureState(m, e2, f2)
                                 => extensionFeaturesState'[e2][f2] = m[e2][f2]
                /\ lastOp'.effects = <<AccessDataEvent(e, f, after)>>
                /\ CountKind(lastOp'.effects, "onDidChangeAccessData") = 1
                /\ UNCHANGED <<storage, pending, detached, now, asked>>
      ]_vars

\* setStatus has just set a status on a pair that had an access in this
\* session: the access is still counted, with its time.
C13_Witness ==
    /\ lastOp.op = "setStatus"
    /\ lastOp.result = "void"
    /\ lastOp.arg = "warning"
    /\ LET accessData == extensionFeaturesState[lastOp.extension][lastOp.featureId].accessData
       IN  /\ accessData.current.status = "warning"
           /\ accessData.current.count = 1
           /\ accessData.current.lastAccessed > 0
           /\ accessData.totalCount > 0

----------------------------------------------------------------------------
(* C14 *)

\* C14: a getAccess call on a pair whose disabled is true resolves to false
\* at once: the dialog is not invoked (no call is suspended), no event is
\* fired, nothing is stored, and the map (disabled, totalCount and current
\* of every pair) and the clock are as they were.
C14_DisabledRefusedSilently ==
    [][( /\ Did("getAccess")
         /\ lastOp'.featureId \in RegisteredFeatures
         /\ DisabledIn(extensionFeaturesState, lastOp'.extension, lastOp'.featureId) = "true" )
         => /\ lastOp'.result = "false"
            /\ lastOp'.effects = <<>>
            /\ UNCHANGED <<extensionFeaturesState, keyOrder, storage, pending, detached, asked, now>>
      ]_vars

\* getAccess was just refused on a disabled pair that has accesses from an
\* earlier session.
C14_Witness ==
    /\ lastOp.op = "getAccess"
    /\ lastOp.featureId \in RegisteredFeatures
    /\ lastOp.result = "false"
    /\ DisabledIn(extensionFeaturesState, lastOp.extension, lastOp.featureId) = "true"
    /\ TotalCountIn(extensionFeaturesState, lastOp.extension, lastOp.featureId) > 0
    /\ asked = {}

----------------------------------------------------------------------------
(* C15 *)

\* Number of events of a kind fired for a pair
CountFor(effects, kind, extension, featureId) ==
    Cardinality({i \in DOMAIN effects :
                    /\ effects[i].kind = kind
                    /\ effects[i].extension = extension
                    /\ effects[i].featureId = featureId})

\* getAccessData(extension, featureId) differs between the maps m1 and m2
AccessDataDiffers(m1, m2, extension, featureId) ==
    \/ HasAccessData(m1, extension, featureId) # HasAccessData(m2, extension, featureId)
    \/ /\ HasAccessData(m1, extension, featureId)
       /\ HasAccessData(m2, extension, featureId)
       /\ getAccessData(m1, extension, featureId) # getAccessData(m2, extension, featureId)

\* C15: an external storage notification replaces the whole map by what
\* loadState() reads from storage and fires, for each pair whose isEnabled
\* differs between the old and the new map, one enablement event carrying the
\* new value, and for each pair whose getAccessData differs, one access-data
\* event carrying the new access data ({totalCount: 0} when there is none);
\* for a registered feature these are the only events of the pair, and
\* nothing is stored.  A notification that is not external changes nothing
\* and fires nothing.
C15_ReloadReplacesAndDiffs ==
    [][/\ ExternalReload
          => LET old == extensionFeaturesState
                 new == extensionFeaturesState'
                 effects == lastOp'.effects
             IN  /\ new = loadState(storage')
                 /\ CountKind(effects, "store") = 0
                 /\ \A e \in ExtensionIds, f \in FeatureIds :
                       /\ isEnabled(old, e, f) # isEnabled(new, e, f)
                             => /\ CountFor(effects, "onDidChangeEnablement", e, f) = 1
                                /\ \E i \in DOMAIN effects :
                                      effects[i] = EnablementEvent(e, f, isEnabled(new, e, f))
                       /\ AccessDataDiffers(old, new, e, f)
                             => /\ CountFor(effects, "onDidChangeAccessData", e, f) = 1
                                /\ \E i \in DOMAIN effects :
                                      effects[i] = AccessDataEvent(e, f,
                                          IF HasAccessData(new, e, f)
                                          THEN getAccessData(new, e, f)
                                          ELSE [totalCount |-> 0, current |-> NoCurrent])
                       /\ f \in RegisteredFeatures
                             => /\ isEnabled(old, e, f) = isEnabled(new, e, f)
                                      => CountFor(effects, "onDidChangeEnablement", e, f) = 0
                                /\ ~ AccessDataDiffers(old, new, e, f)
                                      => CountFor(effects, "onDidChangeAccessData", e, f) = 0
       /\ (Did("onDidStorageChange") /\ lastOp'.arg = "local")
          => /\ lastOp'.effects = <<>>
             /\ UNCHANGED <<extensionFeaturesState, keyOrder, storage, pending, detached, asked, now>>
      ]_vars

\* An external reload has just replaced a map that local calls had changed:
\* one pair changed both its enablement and its access data, and both events
\* were fired for it.
C15_Witness ==
    /\ lastOp.op = "onDidStorageChange"
    /\ lastOp.arg = "external"
    /\ calls >= 2
    /\ extensionFeaturesState = loadState(storage)
    /\ \E e \in ExtensionIds, f \in RegisteredFeatures :
          /\ CountFor(lastOp.effects, "onDidChangeEnablement", e, f) = 1
          /\ CountFor(lastOp.effects, "onDidChangeAccessData", e, f) = 1
          /\ HasExtensionFeatureState(extensionFeaturesState, e, f)

----------------------------------------------------------------------------
(* C16 *)

\* C16: for a registered feature getEnablementData returns one entry
\* {extension, enabled} for each extension whose object for the feature has
\* disabled defined, with enabled = not disabled, and none for an extension
\* without an object or with an undecided one; for an unregistered feature
\* it returns the empty list.
C16_EnablementDataDecidedOnly ==
    \A f \in FeatureIds :
        LET result == getEnablementData(extensionFeaturesState, keyOrder, f)
            entriesOf(e) == {i \in DOMAIN result : result[i].extension = e}
        IN  IF f \notin RegisteredFeatures
            THEN result = <<>>
            ELSE /\ \A i \in DOMAIN result : result[i].extension \in ExtensionIds
                 /\ \A e \in ExtensionIds :
                       IF DisabledIn(extensionFeaturesState, e, f) # "undefined"
                       THEN /\ Cardinality(entriesOf(e)) = 1
                            /\ \A i \in entriesOf(e) :
                                  result[i].enabled
                                     = (DisabledIn(extensionFeaturesState, e, f) = "false")
                       ELSE entriesOf(e) = {}

\* One extension has disabled the feature and another has an undecided object
\* for it (a dialog is open): only the first is listed.
C16_Witness ==
    \E e1 \in ExtensionIds, e2 \in ExtensionIds, f \in RegisteredFeatures :
        /\ DisabledIn(extensionFeaturesState, e1, f) = "true"
        /\ HasExtensionFeatureState(extensionFeaturesState, e2, f)
        /\ DisabledIn(extensionFeaturesState, e2, f) = "undefined"
        /\ getEnablementData(extensionFeaturesState, keyOrder, f)
              = <<[extension |-> e1, enabled |-> FALSE]>>
        /\ lastOp.op = "getAccess"

----------------------------------------------------------------------------
(* C17 *)

\* C17: when the stored text is not JSON, the constructor and the external
\* reload complete and leave the map empty: no entry readable in the text is
\* recovered, so no pair has an object or access data and every registered
\* feature reads enabled.
C17_MalformedLoadsEmpty ==
    ( /\ storage.kind = "malformed"
      /\ \/ lastOp.op = "constructor"
         \/ lastOp.op = "onDidStorageChange" /\ lastOp.arg = "external" )
      => /\ lastOp.result = "void"
         /\ extensionFeaturesState = EmptyMap
         /\ \A e \in ExtensionIds, f \in FeatureIds :
               /\ ~ HasExtensionFeatureState(extensionFeaturesState, e, f)
               /\ ~ HasAccessData(extensionFeaturesState, e, f)
               /\ f \in RegisteredFeatures => isEnabled(extensionFeaturesState, e, f)
         /\ getEnablementData(extensionFeaturesState, keyOrder, "codeActions") = <<>>

\* An external reload has just read a text that is not JSON but has a readable
\* entry, over a map that had objects: the map is empty.
C17_Witness ==
    /\ lastOp.op = "onDidStorageChange"
    /\ lastOp.arg = "external"
    /\ storage.kind = "malformed"
    /\ storage.doc # EmptyMap
    /\ Len(lastOp.effects) > 0
    /\ extensionFeaturesState = EmptyMap

----------------------------------------------------------------------------
(* C18, C19: the granted access *)

\* The step taken is a getAccess call, or its continuation after the dialog,
\* returning true
GrantStep ==
    /\ Did("getAccess") \/ Did("getAccess.confirmed")
    /\ lastOp'.result = "true"

\* C18 as claimed: a granted getAccess fires and stores in this order: the
\* enablement event and a store (only in a call that was just confirmed),
\* then, the counters being updated, a store and one access-data event; the
\* value stored before that event holds, for the pair, the totalCount the
\* event carries.
C18_AsClaimed ==
    [][GrantStep
         => LET e == lastOp'.extension
                f == lastOp'.featureId
                effects == lastOp'.effects
                n == Len(effects)
            IN  /\ n \in {2, 4}
                /\ n = 4 => /\ Did("getAccess.confirmed")
                            /\ effects[1] = EnablementEvent(e, f, TRUE)
                            /\ effects[2].kind = "store"
                /\ effects[n - 1].kind = "store"
                /\ effects[n].kind = "onDidChangeAccessData"
                /\ effects[n].extension = e
                /\ effects[n].featureId = f
                /\ CountKind(effects, "onDidChangeAccessData") = 1
                /\ e \in DOMAIN effects[n - 1].value.doc
                /\ f \in DOMAIN effects[n - 1].value.doc[e]
                /\ effects[n - 1].value.doc[e][f].accessCount = effects[n].accessData.totalCount
                /\ storage' = effects[n - 1].value
      ]_vars

\* C19 as claimed: after a getAccess call has returned true, the totalCount
\* getAccessData reports for the pair and the accessCount stored for it are
\* one more than the totalCount the pair had when the call returned.
C19_AsClaimed ==
    [][GrantStep
         => LET e == lastOp'.extension
                f == lastOp'.featureId
                data == ParsedData(storage')
            IN  /\ HasAccessData(extensionFeaturesState', e, f)
                /\ getAccessData(extensionFeaturesState', e, f).totalCount
                      = TotalCountIn(extensionFeaturesState, e, f) + 1
                /\ e \in DOMAIN data
                /\ f \in DOMAIN data[e]
                /\ data[e][f].accessCount
                      = getAccessData(extensionFeaturesState', e, f).totalCount
      ]_vars

----------------------------------------------------------------------------
(* C20 *)

\* C20 as claimed: an external reload fires an enablement event for a pair
\* only when isEnabled of the pair differs between the old and the new map;
\* it fires none for a pair of an unregistered feature.
C20_AsClaimed ==
    [][ExternalReload
         => \A e \in ExtensionIds, f \in FeatureIds :
               /\ CountFor(lastOp'.effects, "onDidChangeEnablement", e, f) > 0
                     => isEnabled(extensionFeaturesState, e, f)
                           # isEnabled(extensionFeaturesState', e, f)
               /\ f \notin RegisteredFeatures
                     => CountFor(lastOp'.effects, "onDidChangeEnablement", e, f) = 0
      ]_vars

----------------------------------------------------------------------------
(* C21 *)

\* C21: every enablement event a call fires, from setEnablement, from the
\* continuation of getAccess after the dialog or from an external reload,
\* carries the value isEnabled has for its pair when it is fired.  The map
\* is assigned before the event is fired (line 68 before 69, line 168 before
\* the loops) and nothing in the rest of the call changes `disabled`, so
\* that value is the one isEnabled has when the call returns.
C21_EventCarriesIsEnabled ==
    [][\A i \in DOMAIN lastOp'.effects :
          (calls' = calls + 1 /\ lastOp'.effects[i].kind = "onDidChangeEnablement")
            => /\ lastOp'.op \in {"setEnablement", "getAccess.confirmed", "onDidStorageChange"}
               /\ lastOp'.effects[i].enabled
                     = isEnabled(extensionFeaturesState',
                                 lastOp'.effects[i].extension, lastOp'.effects[i].featureId)
      ]_vars

\* An external reload, after local calls, has just fired an enablement event
\* for a pair of a registered feature that another window disabled.
C21_Witness ==
    /\ lastOp.op = "onDidStorageChange"
    /\ lastOp.arg = "external"
    /\ calls >= 2
    /\ \E i \in DOMAIN lastOp.effects :
          /\ lastOp.effects[i].kind = "onDidChangeEnablement"
          /\ lastOp.effects[i].featureId \in RegisteredFeatures
          /\ lastOp.effects[i].enabled = FALSE
          /\ ~ isEnabled(extensionFeaturesState, lastOp.effects[i].extension,
                         lastOp.effects[i].featureId)

----------------------------------------------------------------------------
(* C22 *)

\* C22 as claimed: once the handler has run on a batch, every extension of
\* the batch has on its own collector what its own contribution calls for,
\* whatever the other extensions contributed: the "must be an array" error
\* when its value is missing or not an array, and otherwise the messages of
\* each of its entries, in order.
C22_AsClaimed ==
    handled =>
       \A i \in DOMAIN extensions :
          collectors[i] = IF extensions[i].kind # "array"
                          THEN <<Message("error", "invalid.jsonValidation")>>
                          ELSE forEachEntry(extensions[i].entries, 1)

====
